---- MODULE Spec2Model ----
(***************************************************************************)
(* Model of src/src/AdminGuesser.tsx.                                      *)
(*                                                                         *)
(* AdminGuesser (the introspection orchestrator) owns the React state      *)
(* resources / loading / introspect, runs an effect keyed on               *)
(* [introspect, dataProvider] that calls dataProvider.introspect(), and    *)
(* renders AdminResourcesGuesser (the reconciler).  AdminGuesserWithError  *)
(* wraps it in an ErrorBoundary.                                           *)
(*                                                                         *)
(* One action is one handler together with the commit (re-render) React    *)
(* performs for the state it set.  The passive effect of a commit and the  *)
(* boundary's onError callback are steps of their own: React runs them     *)
(* after the commit and before it processes any later update, which is     *)
(* what the variable `scheduled` encodes.                                  *)
(*                                                                         *)
(* Once the boundary has caught an error AdminGuesser is unmounted: its    *)
(* state is kept as it was (React discards it) and its setters do nothing. *)
(* Nothing in this file resets the boundary, so it stays caught.           *)
(*                                                                         *)
(* getRoutesAndResourcesFromNodes and isSingleChildFunction live in        *)
(* another file of the repository and follow its documented behaviour.     *)
(* `last` is a history variable: the step taken last and its inputs.       *)
(***************************************************************************)
EXTENDS Integers, Sequences, FiniteSets, TLC

\* ---------------------------------------------------------------- bounds
MaxResources == 2      \* longest resource list handed to the reconciler alone
MaxChildren == 2       \* longest list of children handed to the reconciler alone
MaxFetched == 1        \* longest resource list an introspection returns
MaxDeclared == 0        \* longest list of children declared under AdminGuesser
MaxCalls == 2          \* introspect() calls issued in one run
NumProviders == 2      \* dataProvider identities that expose introspect

\* ------------------------------------------------------------ data model
Names == {"books", "reviews"}

\* Resource of @api-platform/api-doc-parser: the two attributes used here.
ResourceSet == [name : Names, deprecated : BOOLEAN]

ResourceSeqs(max) == UNION {[1..n -> ResourceSet] : n \in 0..max}

\* The `data` of a resolved introspect(): data.resources may be absent.
Data == {[has |-> TRUE, resources |-> r] : r \in ResourceSeqs(MaxFetched)}
          \cup {[has |-> FALSE, resources |-> <<>>]}

\* data.resources ?? []
OrEmpty(data) == IF data.has THEN data.resources ELSE <<>>

\* A dataProvider prop: an identity, and whether it exposes `introspect`.
Providers == [id : 1..NumProviders, hasIntrospect : {TRUE}]
               \cup {[id |-> 0, hasIntrospect |-> FALSE]}

Errors == {"E1", "E2"}

ConfigError == "The given dataProvider needs to expose an \"introspect\" function"

NoError == ""

\* ErrorInfo handed to onError by the boundary; undefined until then.
NoInfo == [defined |-> FALSE, componentStack |-> ""]

InfoAt(component) == [defined |-> TRUE, componentStack |-> component]

\* Declared child elements: their kind, and their position as identity.
ChildTypes == {"CustomRoutes", "Resource", "Other"}

Element(type, pos, name) == [type |-> type, pos |-> pos, name |-> name, key |-> name]

Declared(types) == [i \in 1..Len(types) |-> Element(types[i], i, "")]

\* The `children` prop: a single render function, or a list of elements.
ChildrenSet(max) ==
  {[fn |-> TRUE, nodes |-> <<>>]}
    \cup {[fn |-> FALSE, nodes |-> Declared(t)] :
            t \in UNION {[1..n -> ChildTypes] : n \in 0..max}}

VARIABLES
  resources,        \* useState<Resource[]>([])           (line 132)
  loading,          \* useState(true)                     (line 133)
  introspect,       \* useState(true)                     (line 135)
  dataProvider,     \* the dataProvider prop
  children,         \* the children prop
  includeDeprecated,\* the includeDeprecated prop
  pending,          \* introspect() promises not yet settled
  calls,            \* number of introspect() calls issued so far
  scheduled,        \* "none", "effect" or "onError": what React runs next
  boundary,         \* ErrorBoundary state {didCatch, error}
  errorInfo,        \* useState<ErrorInfo>() of AdminGuesserWithError
  view,             \* the element tree last committed
  last              \* the step taken last, with its inputs

vars == <<resources, loading, introspect, dataProvider, children,
          includeDeprecated, pending, calls, scheduled, boundary, errorInfo,
          view, last>>

\* ------------------------------------------------- AdminResourcesGuesser
NoCode == [shown |-> FALSE, lines |-> <<>>]

\* getOverrideCode: the fixed header, then one snippet line per resource.
getOverrideCode(rs) == [shown |-> TRUE, lines |-> [i \in 1..Len(rs) |-> rs[i].name]]

isSingleChildFunction(ch) == ch.fn

\* Partition of the declared children into custom routes and resource
\* declarations, each in declaration order.
getRoutesAndResourcesFromNodes(ch) ==
  [customRoutes |-> SelectSeq(ch.nodes, LAMBDA e : e.type = "CustomRoutes"),
   resources |-> SelectSeq(ch.nodes, LAMBDA e : e.type = "Resource")]

LoadingPage ==
  [kind |-> "LoadingPage", children |-> [fn |-> FALSE, nodes |-> <<>>],
   overrideCode |-> NoCode, error |-> NoError, errorInfo |-> NoInfo]

AdminEl(adminChildren, code) ==
  [kind |-> "AdminEl", children |-> adminChildren, overrideCode |-> code,
   error |-> NoError, errorInfo |-> NoInfo]

\* <ResourceGuesser name={r.name} key={r.name} />
ResourceGuesser(r) == Element("ResourceGuesser", 0, r.name)

\* Mutant: the deprecated resources are never filtered out.
guessResources_KeepAll(incl, rs) == rs

\* includeDeprecated ? resources : resources.filter((r) => !r.deprecated)
guessResources(incl, rs) ==
  IF incl THEN rs ELSE SelectSeq(rs, LAMBDA r : ~r.deprecated)

\* The guess path: the custom routes, then a ResourceGuesser per resource
\* kept, and the override code displayed for the resources kept.
Guessed(customRoutes, rs) ==
  AdminEl([fn |-> FALSE,
           nodes |-> customRoutes \o [i \in 1..Len(rs) |-> ResourceGuesser(rs[i])]],
          getOverrideCode(rs))

\* Mutant: the loading flag is not looked at.
AdminResourcesGuesser_NoLoadingCheck(ch, incl, rs, ld) ==
  LET parts == getRoutesAndResourcesFromNodes(ch)
  IN IF ~isSingleChildFunction(ch) /\ Len(parts.resources) = 0
       THEN Guessed(parts.customRoutes, guessResources(incl, rs))
       ELSE AdminEl(ch, NoCode)

\* Mutant: declared resources no longer stop the guessing.
AdminResourcesGuesser_AlwaysGuess(ch, incl, rs, ld) ==
  IF ld THEN LoadingPage
  ELSE
    LET parts == getRoutesAndResourcesFromNodes(ch)
    IN IF ~isSingleChildFunction(ch)
         THEN Guessed(parts.customRoutes, guessResources(incl, rs))
         ELSE AdminEl(ch, NoCode)

AdminResourcesGuesser(ch, incl, rs, ld) ==
  IF ld THEN LoadingPage
  ELSE
    LET parts == getRoutesAndResourcesFromNodes(ch)
    IN IF ~isSingleChildFunction(ch) /\ Len(parts.resources) = 0
         THEN Guessed(parts.customRoutes, guessResources(incl, rs))
         ELSE AdminEl(ch, NoCode)

\* ------------------------------------------------- AdminGuesserWithError
\* fallbackRender: <ErrorComponent {...fallbackRenderProps} errorInfo={errorInfo} />
renderError(error, info) ==
  [kind |-> "Error", children |-> [fn |-> FALSE, nodes |-> <<>>],
   overrideCode |-> NoCode, error |-> error, errorInfo |-> info]

mounted == ~boundary.didCatch

\* The step taken last: its name, the call it issued (0 if none), the data
\* or error a promise settled with, and whether it removed a resource.
Event(op, call, data, error, dropped) ==
  [op |-> op, call |-> call, data |-> data, error |-> error, dropped |-> dropped]

Range(s) == {s[i] : i \in 1..Len(s)}

NoData == [has |-> FALSE, resources |-> <<>>]

\* An error thrown while rendering AdminGuesser or running its effect: the
\* boundary catches it, unmounts AdminGuesser and renders the fallback; its
\* onError callback runs next.
Caught(error) ==
  /\ boundary' = [didCatch |-> TRUE, error |-> error]
  /\ view' = renderError(error, errorInfo)
  /\ scheduled' = "onError"

\* handleError: setErrorInfo(info), and the fallback is rendered again.
handleError ==
  /\ scheduled = "onError"
  /\ errorInfo' = InfoAt("AdminGuesser")
  /\ view' = renderError(boundary.error, errorInfo')
  /\ scheduled' = "none"
  /\ last' = Event("handleError", 0, NoData, boundary.error, FALSE)
  /\ UNCHANGED <<resources, loading, introspect, dataProvider, children,
                 includeDeprecated, pending, calls, boundary>>

\* ------------------------------------------------------------ AdminGuesser
Init ==
  /\ resources = <<>>
  /\ loading = TRUE
  /\ introspect = TRUE
  /\ dataProvider \in Providers
  /\ children \in ChildrenSet(MaxDeclared)
  /\ includeDeprecated \in BOOLEAN
  /\ pending = {}
  /\ calls = 0
  /\ scheduled = "effect"
  /\ boundary = [didCatch |-> FALSE, error |-> NoError]
  /\ errorInfo = NoInfo
  /\ view = AdminResourcesGuesser(children, includeDeprecated, resources, loading)
  /\ last = Event("mount", 0, NoData, NoError, FALSE)

\* Mutant: the introspect flag is tested before the dataProvider is.
useEffect_FlagFirst ==
  /\ mounted
  /\ scheduled = "effect"
  /\ IF ~introspect
       THEN /\ scheduled' = "none"
            /\ last' = Event("effect", 0, NoData, NoError, FALSE)
            /\ UNCHANGED <<pending, calls, boundary, view>>
       ELSE IF ~dataProvider.hasIntrospect
         THEN /\ Caught(ConfigError)
              /\ last' = Event("effect", 0, NoData, ConfigError, FALSE)
              /\ UNCHANGED <<pending, calls>>
         ELSE /\ calls' = calls + 1
              /\ pending' = pending \cup {[id |-> calls', provider |-> dataProvider.id]}
              /\ scheduled' = "none"
              /\ last' = Event("effect", calls', NoData, NoError, FALSE)
              /\ UNCHANGED <<boundary, view>>
  /\ UNCHANGED <<resources, loading, introspect, dataProvider, children,
                 includeDeprecated, errorInfo>>

\* Mutant: the effect fetches on every run, without testing the flag.
useEffect_NoFlagTest ==
  /\ mounted
  /\ scheduled = "effect"
  /\ IF ~dataProvider.hasIntrospect
       THEN /\ Caught(ConfigError)
            /\ last' = Event("effect", 0, NoData, ConfigError, FALSE)
            /\ UNCHANGED <<pending, calls>>
       ELSE /\ calls' = calls + 1
            /\ pending' = pending \cup {[id |-> calls', provider |-> dataProvider.id]}
            /\ scheduled' = "none"
            /\ last' = Event("effect", calls', NoData, NoError, FALSE)
            /\ UNCHANGED <<boundary, view>>
  /\ UNCHANGED <<resources, loading, introspect, dataProvider, children,
                 includeDeprecated, errorInfo>>

\* The effect of lines 137-161, run after a commit whose [introspect,
\* dataProvider] differ from the previous commit's.
useEffect ==
  /\ mounted
  /\ scheduled = "effect"
  /\ IF ~dataProvider.hasIntrospect
       THEN /\ Caught(ConfigError)
            /\ last' = Event("effect", 0, NoData, ConfigError, FALSE)
            /\ UNCHANGED <<pending, calls>>
       ELSE IF ~introspect
         THEN /\ scheduled' = "none"
              /\ last' = Event("effect", 0, NoData, NoError, FALSE)
              /\ UNCHANGED <<pending, calls, boundary, view>>
         ELSE /\ calls' = calls + 1
              /\ pending' = pending \cup {[id |-> calls', provider |-> dataProvider.id]}
              /\ scheduled' = "none"
              /\ last' = Event("effect", calls', NoData, NoError, FALSE)
              /\ UNCHANGED <<boundary, view>>
  /\ UNCHANGED <<resources, loading, introspect, dataProvider, children,
                 includeDeprecated, errorInfo>>

\* Mutant: the fetched resources are appended to those in state.
Resolve_Merge(f, data) ==
  /\ f \in pending
  /\ scheduled = "none"
  /\ pending' = pending \ {f}
  /\ IF mounted
       THEN /\ resources' = resources \o OrEmpty(data)
            /\ introspect' = FALSE
            /\ loading' = FALSE
            /\ scheduled' = IF introspect THEN "effect" ELSE "none"
            /\ view' = AdminResourcesGuesser(children, includeDeprecated,
                                             resources', loading')
       ELSE UNCHANGED <<resources, introspect, loading, scheduled, view>>
  /\ last' = Event("resolve", 0, data, NoError, FALSE)
  /\ UNCHANGED <<dataProvider, children, includeDeprecated, calls, boundary,
                 errorInfo>>

\* .then(({ data }) => { setResources(data.resources ?? []);
\*                       setIntrospect(false); setLoading(false); })
\* On an unmounted AdminGuesser the setters do nothing.
Resolve(f, data) ==
  /\ f \in pending
  /\ scheduled = "none"
  /\ pending' = pending \ {f}
  /\ IF mounted
       THEN /\ resources' = OrEmpty(data)
            /\ introspect' = FALSE
            /\ loading' = FALSE
            /\ scheduled' = IF introspect THEN "effect" ELSE "none"
            /\ view' = AdminResourcesGuesser(children, includeDeprecated,
                                             resources', loading')
       ELSE UNCHANGED <<resources, introspect, loading, scheduled, view>>
  /\ last' = Event("resolve", 0, data, NoError, Range(resources) \ Range(resources') # {})
  /\ UNCHANGED <<dataProvider, children, includeDeprecated, calls, boundary,
                 errorInfo>>

\* Mutant: the rejection is swallowed and the loading flag cleared.
Reject_Swallow(f, error) ==
  /\ f \in pending
  /\ scheduled = "none"
  /\ pending' = pending \ {f}
  /\ last' = Event("reject", 0, NoData, error, FALSE)
  /\ IF mounted
       THEN /\ loading' = FALSE
            /\ view' = AdminResourcesGuesser(children, includeDeprecated,
                                             resources, loading')
       ELSE UNCHANGED <<loading, view>>
  /\ UNCHANGED <<resources, introspect, dataProvider, children,
                 includeDeprecated, calls, boundary, scheduled, errorInfo>>

\* .catch((error) => { setError(() => { throw error; }); })
\* The updater throws in the render that follows, under the boundary.
Reject(f, error) ==
  /\ f \in pending
  /\ scheduled = "none"
  /\ pending' = pending \ {f}
  /\ last' = Event("reject", 0, NoData, error, FALSE)
  /\ IF mounted
       THEN Caught(error)
       ELSE UNCHANGED <<boundary, view, scheduled>>
  /\ UNCHANGED <<resources, loading, introspect, dataProvider, children,
                 includeDeprecated, calls, errorInfo>>

\* Mutant: only setLoading(true) is called.
Introspect_LoadingOnly ==
  /\ mounted
  /\ scheduled = "none"
  /\ introspect \/ calls < MaxCalls
  /\ loading' = TRUE
  /\ view' = AdminResourcesGuesser(children, includeDeprecated, resources, loading')
  /\ last' = Event("introspect", 0, NoData, NoError, FALSE)
  /\ UNCHANGED <<resources, introspect, dataProvider, children,
                 includeDeprecated, pending, calls, scheduled, boundary,
                 errorInfo>>

\* introspectionContext.introspect: setLoading(true); setIntrospect(true).
Introspect ==
  /\ mounted
  /\ scheduled = "none"
  /\ introspect \/ calls < MaxCalls
  /\ loading' = TRUE
  /\ introspect' = TRUE
  /\ scheduled' = IF introspect THEN "none" ELSE "effect"
  /\ view' = AdminResourcesGuesser(children, includeDeprecated, resources, loading')
  /\ last' = Event("introspect", 0, NoData, NoError, FALSE)
  /\ UNCHANGED <<resources, dataProvider, children, includeDeprecated, pending,
                 calls, boundary, errorInfo>>

\* The parent renders AdminGuesser with a dataProvider of another identity.
ChangeDataProvider(dp) ==
  /\ mounted
  /\ scheduled = "none"
  /\ dp # dataProvider
  /\ ~introspect \/ ~dp.hasIntrospect \/ calls < MaxCalls
  /\ dataProvider' = dp
  /\ scheduled' = "effect"
  /\ view' = AdminResourcesGuesser(children, includeDeprecated, resources, loading)
  /\ last' = Event("dataProvider", 0, NoData, NoError, FALSE)
  /\ UNCHANGED <<resources, loading, introspect, children, includeDeprecated,
                 pending, calls, boundary, errorInfo>>

Next ==
  \/ useEffect
  \/ \E f \in pending, data \in Data : Resolve(f, data)
  \/ \E f \in pending, error \in Errors : Reject(f, error)
  \/ Introspect
  \/ \E dp \in Providers : ChangeDataProvider(dp)
  \/ handleError

Spec == Init /\ [][Next]_vars

\* React runs a scheduled effect and the boundary's onError; nothing obliges
\* a promise to settle, a descendant to ask again or the props to change.
FairSpec == Spec /\ WF_vars(useEffect) /\ WF_vars(handleError)

\* The same component under a parent that never changes the dataProvider.
NextFixed ==
  \/ useEffect
  \/ \E f \in pending, data \in Data : Resolve(f, data)
  \/ \E f \in pending, error \in Errors : Reject(f, error)
  \/ Introspect
  \/ handleError

SpecFixed == Init /\ [][NextFixed]_vars

\* ------------------------------------- AdminResourcesGuesser on its own
\* The exported reconciler rendered once with props drawn from the bounded
\* sets: the view is empty until Render commits its output.
NotRendered ==
  [kind |-> "none", children |-> [fn |-> FALSE, nodes |-> <<>>],
   overrideCode |-> NoCode, error |-> NoError, errorInfo |-> NoInfo]

RenderInit ==
  /\ resources \in ResourceSeqs(MaxResources)
  /\ loading \in BOOLEAN
  /\ children \in ChildrenSet(MaxChildren)
  /\ includeDeprecated \in BOOLEAN
  /\ introspect = loading
  /\ dataProvider = [id |-> 1, hasIntrospect |-> TRUE]
  /\ pending = {}
  /\ calls = 0
  /\ scheduled = "none"
  /\ boundary = [didCatch |-> FALSE, error |-> NoError]
  /\ errorInfo = NoInfo
  /\ view = NotRendered
  /\ last = Event("props", 0, NoData, NoError, FALSE)

Render ==
  /\ last.op = "props"
  /\ view' = AdminResourcesGuesser(children, includeDeprecated, resources, loading)
  /\ last' = Event("render", 0, NoData, NoError, FALSE)
  /\ UNCHANGED <<resources, loading, introspect, dataProvider, children,
                 includeDeprecated, pending, calls, scheduled, boundary,
                 errorInfo>>

RenderSpec == RenderInit /\ [][Render]_vars

\* ================================================================ claims
\* Positions of a sequence that satisfy a test, and the rank of one of them.
Rank(S, i) == Cardinality({k \in S : k <= i})

RouteIdx == {i \in 1..Len(children.nodes) : children.nodes[i].type = "CustomRoutes"}

HasResourceChild == \E i \in 1..Len(children.nodes) : children.nodes[i].type = "Resource"

KeptIdx == {j \in 1..Len(resources) : includeDeprecated \/ ~resources[j].deprecated}

GuessPath == ~loading /\ ~children.fn /\ ~HasResourceChild

\* C1: whenever the orchestrator's loading flag is true, the reconciler
\* outputs the loading placeholder and nothing else (no guessed element, no
\* declared child, no override code), whatever children, resources and
\* includeDeprecated are.
C1_LoadingShowsOnlyPlaceholder ==
  (mounted /\ loading) =>
    /\ view.kind = "LoadingPage"
    /\ view.children.nodes = <<>> /\ ~view.children.fn
    /\ ~view.overrideCode.shown
    /\ \A ch \in ChildrenSet(MaxChildren), incl \in BOOLEAN :
         AdminResourcesGuesser(ch, incl, resources, loading) = LoadingPage

\* C1 witness: loading again after a re-introspection request, with a
\* non-empty resource list still in state.
C1_Witness ==
  mounted /\ loading /\ last.op = "introspect" /\ resources # <<>>
    /\ view = LoadingPage

C6_DeclaredChildrenWin ==
  (last.op = "render" /\ ~loading /\ (children.fn \/ HasResourceChild)) =>
    /\ view.kind = "AdminEl"
    /\ view.children = children
    /\ ~view.overrideCode.shown
    /\ \A i \in 1..Len(view.children.nodes) :
         view.children.nodes[i].type # "ResourceGuesser"

\* C6 witness: a declared resource next to a custom route, with resources
\* the guess path would have used.
C6_Witness ==
  /\ last.op = "render" /\ ~loading /\ HasResourceChild /\ RouteIdx # {}
  /\ resources # <<>> /\ includeDeprecated
  /\ view.children = children

\* C9 (as the doc comment of AdminResourcesGuesser states it): when not
\* loading, any children passed are rendered as passed, in the given order,
\* and ResourceGuesser elements are generated only when no children are
\* passed.
C9_AnyChildrenRenderedAsGiven ==
  (last.op = "render" /\ ~loading) =>
    /\ (children.fn \/ children.nodes # <<>>) => view.children = children
    /\ (\E i \in 1..Len(view.children.nodes) :
          view.children.nodes[i].type = "ResourceGuesser")
         => (~children.fn /\ children.nodes = <<>>)


\* The orchestrator's own state.
state == <<resources, loading, introspect>>

\* C2: re-invoking the capability sets loading back to true, and when an
\* introspect() call then resolves with data, the state becomes
\* loading = false with resources exactly data.resources (the empty
\* sequence when absent): replaced, not merged.
C2_ReintrospectReplaces ==
  [][/\ (mounted /\ last'.op = "introspect") => loading'
     /\ (mounted /\ last'.op = "resolve") =>
          /\ ~loading'
          /\ resources' = (IF last'.data.has THEN last'.data.resources ELSE <<>>)
          /\ Range(resources') \subseteq Range(last'.data.resources)]_vars

\* C2 witness: the second call has resolved, after a request made when a
\* first result was in state, and a resource of the old list is gone.
C2_Witness ==
  /\ mounted /\ last.op = "resolve" /\ last.dropped /\ calls >= 2
  /\ ~loading /\ pending = {}
  /\ resources = OrEmpty(last.data)

\* C3 (as claimed): a rejection with E leaves resources and loading as they
\* were, and E is eventually delivered to the ErrorBoundary, whose fallback
\* is rendered with E; no rejection is dropped.
C3_EveryRejectionReachesBoundary ==
  /\ [][last'.op = "reject" => (resources' = resources /\ loading' = loading)]_vars
  /\ \A e \in Errors :
       (last.op = "reject" /\ last.error = e)
         ~> (boundary.error = e /\ view.kind = "Error" /\ view.error = e)

\* C3 (amended): a rejection with E leaves resources and loading as they
\* were; if AdminGuesser is still mounted, the boundary catches E and its
\* fallback is rendered with E, and stays so; if the boundary has already
\* caught an error, the rejection changes nothing.
C3_RejectionEscalatesWhileMounted ==
  /\ [][last'.op = "reject" =>
          /\ resources' = resources /\ loading' = loading
          /\ mounted =>
               /\ boundary' = [didCatch |-> TRUE, error |-> last'.error]
               /\ view'.kind = "Error" /\ view'.error = last'.error
          /\ ~mounted => (boundary' = boundary /\ view' = view)]_vars
  /\ [][boundary.didCatch =>
          (boundary' = boundary /\ view'.kind = "Error"
             /\ view'.error = boundary.error /\ state' = state)]_vars
  /\ \A e \in Errors :
       (last.op = "reject" /\ boundary.error = e)
         ~> (view.kind = "Error" /\ view.error = e /\ view.errorInfo.defined)

\* C3 witness: a re-introspection rejected while a first result is in
\* state; the fallback shows the error, resources and loading are untouched.
C3_Witness ==
  /\ last.op = "reject" /\ boundary.didCatch /\ boundary.error = last.error
  /\ view.kind = "Error" /\ view.error = last.error
  /\ loading /\ resources # <<>>

\* C4: with a dataProvider that exposes no introspect function, every run
\* of the effect throws the configuration error without issuing a fetch,
\* whether or not an introspection is pending; the boundary catches it and
\* the fallback is eventually rendered with the error and defined errorInfo.
C4_ConfigErrorReachesFallback ==
  /\ [][(last'.op = "effect" /\ ~dataProvider.hasIntrospect) =>
          /\ calls' = calls /\ pending' = pending
          /\ boundary' = [didCatch |-> TRUE, error |-> ConfigError]
          /\ view'.kind = "Error" /\ view'.error = ConfigError]_vars
  /\ [](\A f \in pending : f.provider # 0)
  /\ (boundary.error = ConfigError)
       ~> (/\ view.kind = "Error" /\ view.error = ConfigError
           /\ view.errorInfo.defined /\ view.errorInfo.componentStack # "")

\* C4 witness: the configuration error thrown by an effect run while no
\* introspection was pending, shown by the fallback with its errorInfo.
C4_Witness ==
  /\ boundary.error = ConfigError /\ ~introspect /\ ~loading
  /\ view.kind = "Error" /\ view.error = ConfigError /\ view.errorInfo.defined
  /\ calls >= 1

\* C7 (as claimed): every invocation of the capability, also one made while
\* an introspect() call is pending, sets loading = true and is followed by
\* a new call to dataProvider.introspect(): it makes the effect run again
\* (only the effect calls introspect()), and that run issues a call.
C7_EveryInvocationFetches ==
  /\ [][last'.op = "introspect" => (loading' /\ scheduled' = "effect")]_vars
  /\ (last.op = "introspect") ~> (last.op = "effect" /\ last.call > 0)

\* C7 (amended): every invocation sets loading = true; one made while the
\* introspect flag is false is followed by a new call to
\* dataProvider.introspect(); one made while the flag is already true (an
\* earlier call still pending) changes no state and issues no call.
C7_InvocationFetchesWhenIdle ==
  /\ [][last'.op = "introspect" =>
          /\ loading' /\ introspect'
          /\ ~introspect => scheduled' = "effect"
          /\ introspect =>
               UNCHANGED <<state, pending, calls, scheduled, view>>]_vars
  /\ (last.op = "introspect" /\ scheduled = "effect")
       ~> (/\ last.op = "effect" /\ last.call > 0 /\ last.call = calls
           /\ \E f \in pending : f.id = last.call)

\* C7 witness: the effect has just issued a call for a request made after
\* a first result arrived.
C7_Witness ==
  /\ last.op = "effect" /\ last.call >= 2 /\ loading /\ introspect
  /\ resources # <<>> /\ \E f \in pending : f.id = last.call

\* C8 (as claimed): while loading stays false, resources does not change.
C8_ResourcesFinalOnceLoaded ==
  [][(mounted /\ ~loading /\ ~loading') => resources' = resources]_vars

\* C10: under a dataProvider that never changes, at most one introspect()
\* call is outstanding, and loading = false implies none is.
C10_OneOutstandingFetch ==
  /\ Cardinality(pending) <= 1
  /\ ~loading => pending = {}

\* C10 witness: the capability invoked while the second call is pending.
C10_Witness ==
  /\ last.op = "introspect" /\ calls >= 2 /\ Cardinality(pending) = 1
  /\ loading

====
